---- MODULE Spec2Model ----
(***************************************************************************)
(* State-machine model of the batch scheduler of core/thread_manager.py    *)
(* (MultiThreadGenerator) and of the routes of api/routes.py that poll it. *)
(*                                                                         *)
(* One coordinator object is modelled.  Each accepted start call creates   *)
(* batch b: its BatchProgress object prog[b], its ThreadPoolExecutor       *)
(* (executor b), its background thread (bgpc[b]) and the driver queue that *)
(* thread builds (dq[b]).  Task <<b, i>> is the i-th prompt of batch b.    *)
(***************************************************************************)
EXTENDS Integers, Sequences, FiniteSets, TLC

\* ------------------------------------------------------------------ bounds
MaxBatches == 2      \* start calls that pass the already-running check
MaxTasks == 2        \* prompts in one batch
MaxDrivers == 2      \* distinct driver objects known to the caller
MaxWorkersCfg == 2   \* largest ThreadConfig.max_workers tried
MaxCallers == 1      \* threads calling start / stop on the coordinator
MaxRacers == 2       \* threads calling start at the same time
MaxStops == 2        \* stop calls made on the coordinator
MaxGenerators == 3   \* generation requests the routes accept
MaxSeconds == 3      \* seconds of wall-clock time the requests span

\* ------------------------------------------------------- program constants
RetryAttempts == 2   \* ThreadConfig.retry_attempts
FirstAttempt == 1    \* GenerationTask.attempt

Batches == 1..MaxBatches
Generators == 1..MaxGenerators
BatchIds == 1..MaxSeconds
NoGenerator == 0
NoBatchId == 0
Tasks == 1..MaxTasks
Drivers == 1..MaxDrivers
Callers == 1..MaxRacers
NoDriver == 0
NoExecutor == 0
LockFree == 0

\* The first argument, whatever the second is.
MinFirst(a, b) == a

\* min(self.config.max_workers, len(drivers))
Min(a, b) == IF a < b THEN a ELSE b

\* The driver lists a caller passes: every list of at most MaxDrivers driver
\* objects (the list may be empty, and may name one driver twice).
DriverLists ==
    UNION {[1..n -> Drivers] : n \in 0..MaxDrivers}

VARIABLES
    max_workers,     \* self.config.max_workers
    is_running,      \* self.is_running
    stop_requested,  \* self.stop_requested
    executor,        \* self.executor: NoExecutor (None) or the executor object
    progress,        \* self.progress: which BatchProgress object (0: __init__'s)
    prog,            \* the BatchProgress objects
    lock,            \* self.progress_lock: LockFree or the thread b holding it
    nb,              \* start calls that passed the already-running check
    ntasks,          \* len(tasks) of batch b
    drivers,         \* the drivers argument of batch b
    dq,              \* driver_queue of batch b
    bgpc,            \* background thread of batch b: its position
    bgi,             \* ... its position in `for task in tasks`
    bgt,             \* ... the task whose completion it is handling
    tst,             \* task <<b,i>>: new, queued, acq, run, done, yielded
    tres,            \* task <<b,i>>: result.success of its GenerationResult
    tdrv,            \* task <<b,i>>: the driver its worker holds
    texec,           \* task <<b,i>>: the executor it was submitted to
    attempt,         \* task <<b,i>>: GenerationTask.attempt
    status,          \* task <<b,i>>: prompt.status
    queue,           \* executor e: its work queue
    shut,            \* executor e: shutdown() was called
    maxw,            \* executor e: max_workers
    cpc,             \* caller c: its position in start / stop
    cb,              \* caller c: the batch its start call is creating
    result,          \* caller c: how its last start / stop call ended
    env,             \* the callers' repertoire: what they pass and how often
    nstops,          \* stop calls made so far
    opc,             \* the polling route: the field it reads next
    oref,            \* ... the BatchProgress object get_progress returned
    snap,            \* ... the response it is building
    stopped,         \* history: batches whose thread was alive at a stop call
    finalized,       \* history: batches whose _finalize_batch ran
    stopsInRow,      \* history: caller c's stop calls, up to 2, begun since
                     \*   the last step of any start call
    saved,           \* task <<b,i>>: calls of prompt_manager.save_result
    notified,        \* tasks whose completion the progress callback was given
    raisedFor,       \* ... and for which the progress callback raised
    clock,           \* api/routes.py: datetime.now(), in whole seconds
    multi_thread_generators,  \* ... self.multi_thread_generators: batch_id -> generator
    batch_ids,       \* ... generator g: the batch_id its start returned
    ngen,            \* ... MultiThreadGenerator objects created by the routes
    unregistered     \* ... generators whose stop request was answered

coordVars == <<max_workers, is_running, stop_requested, executor, progress, prog, lock>>
batchVars == <<nb, ntasks, drivers, dq, bgpc, bgi, bgt>>
taskVars == <<tst, tres, tdrv, texec, attempt, status>>
execVars == <<queue, shut, maxw>>
callVars == <<cpc, cb, result, env, nstops>>
pollVars == <<opc, oref, snap>>
histVars == <<stopped, finalized, stopsInRow>>
sinkVars == <<saved, notified, raisedFor>>
routeVars == <<clock, multi_thread_generators, batch_ids, ngen, unregistered>>
vars == <<coordVars, batchVars, taskVars, execVars, callVars, pollVars, histVars,
          sinkVars, routeVars>>

\* BatchProgress(total_prompts=n): the dataclass defaults.
BatchProgress(n) ==
    [total_prompts |-> n, completed |-> 0, successful |-> 0, failed |-> 0,
     in_progress |-> 0, results |-> {}]

\* ThreadConfig(max_workers=...): the configurations tried.
ThreadConfigs == 0..MaxWorkersCfg

\* What generator.generate_image and prompt_manager.save_result do:
\*   success: result.success, save_result returns
\*   failure: result.success is false
\*   raise:   generate_image raises
\*   unsaved: result.success, save_result raises
Outcomes == {"success", "failure", "raise", "unsaved"}

\* What a progress or completion callback does when it is called; a
\* progress callback may also call back into the coordinator ("polls":
\* get_progress()).
Subscribers == {"returns", "raises"}

\* The callers of one batch at a time: any prompt list, any driver list, any
\* behaviour of the generator; one accepted start, MaxStops stop calls.
OneBatch ==
    [starts |-> 1, stops |-> MaxStops, sizes |-> 0..MaxTasks,
     lists |-> DriverLists, outcomes |-> Outcomes, creates |-> BOOLEAN,
     configs |-> ThreadConfigs, subscribers |-> Subscribers,
     callers |-> 1..MaxCallers]

\* The response of the progress route before any field is read.
NoSnapshot ==
    [total |-> 0, completed |-> 0, successful |-> 0, failed |-> 0,
     in_progress |-> 0]

InitWith(repertoire) ==
    /\ env = repertoire
    /\ nstops = 0
    /\ max_workers \in repertoire.configs
    /\ is_running = FALSE
    /\ stop_requested = FALSE
    /\ executor = NoExecutor
    /\ progress = 0
    /\ prog = [k \in 0..MaxBatches |-> BatchProgress(0)]
    /\ lock = LockFree
    /\ nb = 0
    /\ ntasks = [b \in Batches |-> 0]
    /\ drivers = [b \in Batches |-> <<>>]
    /\ dq = [b \in Batches |-> <<>>]
    /\ bgpc = [b \in Batches |-> "none"]
    /\ bgi = [b \in Batches |-> 1]
    /\ bgt = [b \in Batches |-> 0]
    /\ tst = [b \in Batches |-> [i \in Tasks |-> "new"]]
    /\ tres = [b \in Batches |-> [i \in Tasks |-> FALSE]]
    /\ tdrv = [b \in Batches |-> [i \in Tasks |-> NoDriver]]
    /\ texec = [b \in Batches |-> [i \in Tasks |-> NoExecutor]]
    /\ attempt = [b \in Batches |-> [i \in Tasks |-> FirstAttempt]]
    /\ status = [b \in Batches |-> [i \in Tasks |-> "pending"]]
    /\ queue = [e \in Batches |-> <<>>]
    /\ shut = [e \in Batches |-> FALSE]
    /\ maxw = [e \in Batches |-> 0]
    /\ cpc = [c \in Callers |-> "idle"]
    /\ cb = [c \in Callers |-> 0]
    /\ result = [c \in Callers |-> "none"]
    /\ opc = "idle"
    /\ oref = 0
    /\ snap = NoSnapshot
    /\ stopped = {}
    /\ finalized = {}
    /\ stopsInRow = [c \in Callers |-> 0]
    /\ saved = [b \in Batches |-> [i \in Tasks |-> 0]]
    /\ notified = {}
    /\ raisedFor = {}
    /\ clock = 1
    /\ multi_thread_generators = [id \in BatchIds |-> NoGenerator]
    /\ batch_ids = [g \in Generators |-> NoBatchId]
    /\ ngen = 0
    /\ unregistered = {}

Init == InitWith(OneBatch)

\* ------------------------------------------------------------ helpers
TaskIds == Batches \X Tasks

\* Tasks of executor e that a worker thread of e is processing.
Busy(e) ==
    {t \in TaskIds : texec[t[1]][t[2]] = e /\ tst[t[1]][t[2]] \in {"acq", "run"}}

\* Background threads that have started and not yet returned.
Alive(b) == bgpc[b] \notin {"none", "done"}

\* future.done() is false: submitted, its worker has not returned.
Pending(b, i) == tst[b][i] \in {"queued", "acq", "run"}

\* executor.submit raises: self.executor is None (AttributeError) or was
\* shut down (RuntimeError: cannot schedule new futures after shutdown).
SubmitRaises == executor = NoExecutor \/ shut[executor]

\* The driver is not put back.
FinallyPutDropped(q, d) == q

\* finally: if driver: driver_queue.put(driver)
FinallyPut(q, d) == IF d # NoDriver THEN Append(q, d) ELSE q

\* The Outcome of the job is kept as a success.
ProcessingErrorLost(res, b, i) == [res EXCEPT ![b][i] = TRUE]

\* except Exception as e: return GenerationResult(success=False, error=
\* f"Task processing error: {str(e)}")
ProcessingError(res, b, i) == [res EXCEPT ![b][i] = FALSE]

\* self.executor.shutdown(wait=False) on every executor in es.
Shutdown(es) == [e \in Batches |-> shut[e] \/ e \in es]

\* ----------------------------------------------- start_batch_generation
\* The progress is initialised before the already-running check.
StartCheckAfterInit(c) ==
    /\ c \in env.callers
    /\ cpc[c] = "idle"
    /\ lock = LockFree
    /\ IF is_running
       THEN /\ result' = [result EXCEPT ![c] = "RuntimeError"]
            /\ prog' = [prog EXCEPT ![progress] = BatchProgress(0)]
            /\ stop_requested' = FALSE
            /\ UNCHANGED <<cpc, cb, nb, stopsInRow>>
       ELSE /\ nb < env.starts
            /\ nb' = nb + 1
            /\ cb' = [cb EXCEPT ![c] = nb + 1]
            /\ cpc' = [cpc EXCEPT ![c] = "start_init"]
            /\ result' = [result EXCEPT ![c] = "none"]
            /\ stopsInRow' = [d \in Callers |-> 0]
            /\ UNCHANGED <<prog, stop_requested>>
    /\ UNCHANGED <<max_workers, is_running, executor, progress, lock, ntasks,
                   drivers, dq, bgpc, bgi, bgt, taskVars, execVars, env, nstops,
                   stopped, finalized, pollVars, sinkVars, routeVars>>

\* if self.is_running: raise RuntimeError(...)
StartCheck(c) ==
    /\ c \in env.callers
    /\ cpc[c] = "idle"
    /\ IF is_running
       THEN /\ result' = [result EXCEPT ![c] = "RuntimeError"]
            /\ UNCHANGED <<cpc, cb, nb, stopsInRow>>
       ELSE /\ nb < env.starts
            /\ nb' = nb + 1
            /\ cb' = [cb EXCEPT ![c] = nb + 1]
            /\ cpc' = [cpc EXCEPT ![c] = "start_init"]
            /\ result' = [result EXCEPT ![c] = "none"]
            /\ stopsInRow' = [d \in Callers |-> 0]
    /\ UNCHANGED <<coordVars, ntasks, drivers, dq, bgpc, bgi, bgt, taskVars,
                   execVars, env, nstops, stopped, finalized, pollVars,
                   sinkVars, routeVars>>

\* with self.progress_lock: self.progress = BatchProgress(total_prompts=
\* len(prompts)); self.is_running = True; self.stop_requested = False
StartInit(c) ==
    /\ cpc[c] = "start_init"
    /\ lock = LockFree
    /\ \E n \in env.sizes :
         /\ ntasks' = [ntasks EXCEPT ![cb[c]] = n]
         /\ prog' = [prog EXCEPT ![cb[c]] = BatchProgress(n)]
    /\ progress' = cb[c]
    /\ is_running' = TRUE
    /\ stop_requested' = FALSE
    /\ cpc' = [cpc EXCEPT ![c] = "start_exec"]
    /\ stopsInRow' = [d \in Callers |-> 0]
    /\ UNCHANGED <<max_workers, executor, lock, nb, drivers, dq, bgpc, bgi, bgt,
                   taskVars, execVars, cb, result, env, nstops, stopped,
                   finalized, pollVars, sinkVars, routeVars>>

\* self.executor = ThreadPoolExecutor(max_workers=min(max_workers,
\* len(drivers))), which raises ValueError for max_workers <= 0; then the
\* background thread is started (it first builds its driver queue).
StartExecutor(c) ==
    /\ cpc[c] = "start_exec"
    /\ \E ds \in env.lists :
         LET w == Min(max_workers, Len(ds)) IN
         IF w <= 0
         THEN /\ result' = [result EXCEPT ![c] = "ValueError"]
              /\ UNCHANGED <<executor, drivers, dq, bgpc, maxw>>
         ELSE /\ executor' = cb[c]
              /\ maxw' = [maxw EXCEPT ![cb[c]] = w]
              /\ drivers' = [drivers EXCEPT ![cb[c]] = ds]
              /\ dq' = [dq EXCEPT ![cb[c]] = ds]
              /\ bgpc' = [bgpc EXCEPT ![cb[c]] = "loop"]
              /\ result' = [result EXCEPT ![c] = "started"]
    /\ cpc' = [cpc EXCEPT ![c] = "idle"]
    /\ stopsInRow' = [d \in Callers |-> 0]
    /\ UNCHANGED <<max_workers, is_running, stop_requested, progress, prog, lock,
                   nb, ntasks, bgi, bgt, taskVars, queue, shut, cb, env, nstops,
                   stopped, finalized, pollVars, sinkVars, routeVars>>

\* ------------------------------------------------------- stop_generation
\* The jobs of a running batch that no worker has taken are marked failed.
AfterStopFailed(st) ==
    [b \in Batches |-> [i \in Tasks |->
        IF Alive(b) /\ i <= ntasks[b] /\ tst[b][i] \in {"new", "queued"}
        THEN "failed" ELSE st[b][i]]]

\* stop_generation touches no prompt: the statuses are as they were.
AfterStop(st) == st

\* self.stop_requested = True
StopFlag(c) ==
    /\ c \in env.callers
    /\ cpc[c] = "idle"
    /\ nstops < env.stops
    /\ nstops' = nstops + 1
    /\ stop_requested' = TRUE
    /\ status' = AfterStop(status)
    /\ stopped' = stopped \cup {b \in Batches : Alive(b)}
    /\ stopsInRow' = [stopsInRow EXCEPT ![c] = IF @ = 0 THEN 1 ELSE 2]
    /\ cpc' = [cpc EXCEPT ![c] = "stop_test"]
    /\ UNCHANGED <<max_workers, is_running, executor, progress, prog, lock,
                   batchVars, tst, tres, tdrv, texec, attempt, execVars, cb,
                   result, env, finalized, pollVars, sinkVars, routeVars>>

\* `if self.executor:` is one read of the attribute and
\* `self.executor.shutdown(wait=False)` another: between them another
\* thread's _cleanup may have set it to None, and then the call raises
\* AttributeError.
StopTest(c) ==
    /\ cpc[c] = "stop_test"
    /\ cpc' = [cpc EXCEPT ![c] =
                 IF executor # NoExecutor THEN "stop_shutdown" ELSE "stop_cleanup"]
    /\ UNCHANGED <<coordVars, batchVars, taskVars, execVars, cb, result, env,
                   nstops, histVars, pollVars, sinkVars, routeVars>>

StopShutdown(c) ==
    /\ cpc[c] = "stop_shutdown"
    /\ IF executor = NoExecutor
       THEN /\ result' = [result EXCEPT ![c] = "AttributeError"]
            /\ cpc' = [cpc EXCEPT ![c] = "idle"]
            /\ UNCHANGED shut
       ELSE /\ shut' = Shutdown({executor})
            /\ cpc' = [cpc EXCEPT ![c] = "stop_cleanup"]
            /\ UNCHANGED result
    /\ UNCHANGED <<coordVars, batchVars, taskVars, queue, maxw, cb, env, nstops,
                   histVars, pollVars, sinkVars, routeVars>>

\* The running flag is inverted.
CleanupFlagToggled ==
    /\ lock = LockFree
    /\ is_running' = ~is_running

\* _cleanup: with self.progress_lock: self.is_running = False
CleanupFlag ==
    /\ lock = LockFree
    /\ is_running' = FALSE

StopCleanupFlag(c) ==
    /\ cpc[c] = "stop_cleanup"
    /\ CleanupFlag
    /\ cpc' = [cpc EXCEPT ![c] = "stop_cleanup_test"]
    /\ UNCHANGED <<max_workers, stop_requested, executor, progress, prog, lock,
                   batchVars, taskVars, execVars, cb, result, env, nstops,
                   histVars, pollVars, sinkVars, routeVars>>

\* _cleanup: if self.executor: self.executor.shutdown(wait=False);
\* self.executor = None -- a read, a second read with the call, a write.
StopCleanupTest(c) ==
    /\ cpc[c] = "stop_cleanup_test"
    /\ IF executor # NoExecutor
       THEN /\ cpc' = [cpc EXCEPT ![c] = "stop_cleanup_shutdown"]
            /\ UNCHANGED result
       ELSE /\ cpc' = [cpc EXCEPT ![c] = "idle"]
            /\ result' = [result EXCEPT ![c] = "stopped"]
    /\ UNCHANGED <<coordVars, batchVars, taskVars, execVars, cb, env, nstops,
                   histVars, pollVars, sinkVars, routeVars>>

StopCleanupShutdown(c) ==
    /\ cpc[c] = "stop_cleanup_shutdown"
    /\ IF executor = NoExecutor
       THEN /\ result' = [result EXCEPT ![c] = "AttributeError"]
            /\ cpc' = [cpc EXCEPT ![c] = "idle"]
            /\ UNCHANGED shut
       ELSE /\ shut' = Shutdown({executor})
            /\ cpc' = [cpc EXCEPT ![c] = "stop_cleanup_clear"]
            /\ UNCHANGED result
    /\ UNCHANGED <<coordVars, batchVars, taskVars, queue, maxw, cb, env, nstops,
                   histVars, pollVars, sinkVars, routeVars>>

StopCleanupClear(c) ==
    /\ cpc[c] = "stop_cleanup_clear"
    /\ executor' = NoExecutor
    /\ cpc' = [cpc EXCEPT ![c] = "idle"]
    /\ result' = [result EXCEPT ![c] = "stopped"]
    /\ UNCHANGED <<max_workers, is_running, stop_requested, progress, prog, lock,
                   batchVars, taskVars, execVars, cb, env, nstops, histVars,
                   pollVars, sinkVars, routeVars>>

\* ------------------------------------------------- _run_batch_generation
\* for task in tasks: if self.stop_requested: break
BgLoop(b) ==
    /\ bgpc[b] = "loop"
    /\ bgpc' = [bgpc EXCEPT ![b] =
                  IF bgi[b] > ntasks[b] \/ stop_requested THEN "wait" ELSE "submit"]
    /\ UNCHANGED <<coordVars, nb, ntasks, drivers, dq, bgi, bgt, taskVars,
                   execVars, callVars, histVars, pollVars, sinkVars, routeVars>>

\* The tasks are taken from the end of the list.
NextTaskReversed(b) == ntasks[b] + 1 - bgi[b]

\* for task in tasks: the task of this turn of the loop.
NextTask(b) == bgi[b]

\* future = self.executor.submit(self._process_single_task, task,
\* driver_queue, batch_id); an exception leaves through `except Exception`
\* to `finally: self._cleanup()`.
BgSubmit(b) ==
    /\ bgpc[b] = "submit"
    /\ IF SubmitRaises
       THEN /\ bgpc' = [bgpc EXCEPT ![b] = "cleanup"]
            /\ UNCHANGED <<tst, texec, queue>>
       ELSE /\ queue' = [queue EXCEPT ![executor] = Append(@, <<b, NextTask(b)>>)]
            /\ tst' = [tst EXCEPT ![b][NextTask(b)] = "queued"]
            /\ texec' = [texec EXCEPT ![b][NextTask(b)] = executor]
            /\ bgpc' = [bgpc EXCEPT ![b] = "inc"]
    /\ UNCHANGED <<coordVars, nb, ntasks, drivers, dq, bgi, bgt, tres, tdrv,
                   attempt, status, shut, maxw, callVars, histVars,
                   pollVars, sinkVars, routeVars>>

\* with self.progress_lock: self.progress.in_progress += 1; then the sleep
\* and the next turn of the loop.
BgInc(b) ==
    /\ bgpc[b] = "inc"
    /\ lock = LockFree
    /\ prog' = [prog EXCEPT ![progress].in_progress = @ + 1]
    /\ bgi' = [bgi EXCEPT ![b] = @ + 1]
    /\ bgpc' = [bgpc EXCEPT ![b] = "loop"]
    /\ UNCHANGED <<max_workers, is_running, stop_requested, executor, progress,
                   lock, nb, ntasks, drivers, dq, bgt, taskVars, execVars,
                   callVars, histVars, pollVars, sinkVars, routeVars>>

\* for future in as_completed(future_to_task, timeout=...): the iterator
\* yields a finished future, and the body first reads self.stop_requested.
BgYield(b, i) ==
    /\ bgpc[b] = "wait"
    /\ tst[b][i] = "done"
    /\ tst' = [tst EXCEPT ![b][i] = "yielded"]
    /\ IF stop_requested
       THEN /\ bgpc' = [bgpc EXCEPT ![b] = "finalize"]
            /\ UNCHANGED bgt
       ELSE /\ bgpc' = [bgpc EXCEPT ![b] = "handle"]
            /\ bgt' = [bgt EXCEPT ![b] = i]
    /\ UNCHANGED <<coordVars, nb, ntasks, drivers, dq, bgi, tres, tdrv, texec,
                   attempt, status, execVars, callVars, histVars,
                   pollVars, sinkVars, routeVars>>

\* as_completed has yielded every submitted future: the loop ends.
BgExhausted(b) ==
    /\ bgpc[b] = "wait"
    /\ \A i \in Tasks : tst[b][i] \in {"new", "yielded"}
    /\ bgpc' = [bgpc EXCEPT ![b] = "finalize"]
    /\ UNCHANGED <<coordVars, nb, ntasks, drivers, dq, bgi, bgt, taskVars,
                   execVars, callVars, histVars, pollVars, sinkVars, routeVars>>

\* as_completed raises TimeoutError while a future is unfinished after
\* config.timeout * len(tasks) seconds; `except Exception` catches it.
BgTimeout(b) ==
    /\ bgpc[b] = "wait"
    /\ \E i \in Tasks : Pending(b, i)
    /\ bgpc' = [bgpc EXCEPT ![b] = "cleanup"]
    /\ UNCHANGED <<coordVars, nb, ntasks, drivers, dq, bgi, bgt, taskVars,
                   execVars, callVars, histVars, pollVars, sinkVars, routeVars>>

\* completed is decremented.
HandleCountDown(p, t) ==
    [p EXCEPT !.completed = @ - 1, !.in_progress = @ - 1,
              !.results = @ \cup {t}]

\* _handle_task_completion, first half, entered with the lock:
\* completed += 1; in_progress -= 1; results.append(result)
HandleCount(p, t) ==
    [p EXCEPT !.completed = @ + 1, !.in_progress = @ - 1,
              !.results = @ \cup {t}]

\* _handle_task_completion, second half: successful += 1 or failed += 1
HandleOutcome(p, ok) ==
    IF ok THEN [p EXCEPT !.successful = @ + 1] ELSE [p EXCEPT !.failed = @ + 1]

BgHandle(b) ==
    /\ bgpc[b] = "handle"
    /\ lock = LockFree
    /\ lock' = b
    /\ prog' = [prog EXCEPT ![progress] = HandleCount(@, <<b, bgt[b]>>)]
    /\ bgpc' = [bgpc EXCEPT ![b] = "handle2"]
    /\ UNCHANGED <<max_workers, is_running, stop_requested, executor, progress,
                   nb, ntasks, drivers, dq, bgi, bgt, taskVars, execVars,
                   callVars, histVars, pollVars, sinkVars, routeVars>>

\* The exception of the callback leaves _handle_task_completion, and the
\* caller handles the task again as failed.
AfterCallbackUncaught(p, r) ==
    IF r = "raises"
    THEN [p EXCEPT !.completed = @ + 1, !.in_progress = @ - 1, !.failed = @ + 1]
    ELSE p

\* try: self.progress_callback(self.progress) except Exception: print(...)
\* -- the progress is as the handler left it, whether the callback raised
\* or not (the callback of the routes only reads it).
AfterCallback(p, r) == p

\* The subscriber was called for task t.
Notify(s, t) == s \cup {t}

\* A failed Outcome ends the batch without finalizing it.
AfterHandledAbort(ok) == IF ok THEN "wait" ELSE "cleanup"

\* After _handle_task_completion the as_completed loop goes on, whatever
\* the Outcome was (lines 187-199).
AfterHandled(ok) == "wait"

\* A callback that calls get_progress() reaches `with self.progress_lock`
\* of get_progress on the thread that holds that lock: threading.Lock is
\* not reentrant, so the thread waits there and the lock stays held.
BgHandle2(b) ==
    /\ bgpc[b] = "handle2"
    /\ lock = b
    /\ \E r \in env.subscribers :
         /\ prog' = [prog EXCEPT ![progress] =
                        AfterCallback(HandleOutcome(@, tres[b][bgt[b]]), r)]
         /\ raisedFor' = IF r = "raises" THEN raisedFor \cup {<<b, bgt[b]>>}
                                         ELSE raisedFor
         /\ IF r = "polls"
            THEN /\ lock' = b
                 /\ bgpc' = [bgpc EXCEPT ![b] = "get_progress"]
            ELSE /\ lock' = LockFree
                 /\ bgpc' = [bgpc EXCEPT ![b] = AfterHandled(tres[b][bgt[b]])]
    /\ notified' = Notify(notified, <<b, bgt[b]>>)
    /\ UNCHANGED <<max_workers, is_running, stop_requested, executor, progress,
                   nb, ntasks, drivers, dq, bgi, bgt, taskVars, execVars,
                   callVars, histVars, pollVars, saved, routeVars>>

\* self._finalize_batch(batch_id): with the lock, the completion callback,
\* whose exception is caught there.
BgFinalize(b) ==
    /\ bgpc[b] = "finalize"
    /\ lock = LockFree
    /\ \E r \in env.subscribers : finalized' = finalized \cup {b}
    /\ bgpc' = [bgpc EXCEPT ![b] = "cleanup"]
    /\ UNCHANGED <<coordVars, nb, ntasks, drivers, dq, bgi, bgt, taskVars,
                   execVars, callVars, stopped, stopsInRow, pollVars,
                   sinkVars, routeVars>>

\* finally: self._cleanup()
BgCleanupFlag(b) ==
    /\ bgpc[b] = "cleanup"
    /\ CleanupFlag
    /\ bgpc' = [bgpc EXCEPT ![b] = "cleanup_test"]
    /\ UNCHANGED <<max_workers, stop_requested, executor, progress, prog, lock,
                   nb, ntasks, drivers, dq, bgi, bgt, taskVars, execVars,
                   callVars, histVars, pollVars, sinkVars, routeVars>>

\* ... where an AttributeError of the shutdown call ends the thread.
BgCleanupTest(b) ==
    /\ bgpc[b] = "cleanup_test"
    /\ bgpc' = [bgpc EXCEPT ![b] =
                  IF executor # NoExecutor THEN "cleanup_shutdown" ELSE "done"]
    /\ UNCHANGED <<coordVars, nb, ntasks, drivers, dq, bgi, bgt, taskVars,
                   execVars, callVars, histVars, pollVars, sinkVars, routeVars>>

BgCleanupShutdown(b) ==
    /\ bgpc[b] = "cleanup_shutdown"
    /\ IF executor = NoExecutor
       THEN /\ bgpc' = [bgpc EXCEPT ![b] = "done"]
            /\ UNCHANGED shut
       ELSE /\ shut' = Shutdown({executor})
            /\ bgpc' = [bgpc EXCEPT ![b] = "cleanup_clear"]
    /\ UNCHANGED <<coordVars, nb, ntasks, drivers, dq, bgi, bgt, taskVars,
                   queue, maxw, callVars, histVars, pollVars, sinkVars, routeVars>>

BgCleanupClear(b) ==
    /\ bgpc[b] = "cleanup_clear"
    /\ executor' = NoExecutor
    /\ bgpc' = [bgpc EXCEPT ![b] = "done"]
    /\ UNCHANGED <<max_workers, is_running, stop_requested, progress, prog, lock,
                   nb, ntasks, drivers, dq, bgi, bgt, taskVars, execVars,
                   callVars, histVars, pollVars, sinkVars, routeVars>>

\* ------------------------------------- ThreadPoolExecutor worker threads
\* A worker thread of executor e takes the oldest work item; at most
\* max_workers threads exist, and shutdown(wait=False) leaves the queued
\* items to be run.
WorkerTake(e) ==
    /\ queue[e] # <<>>
    /\ Cardinality(Busy(e)) < maxw[e]
    /\ LET t == Head(queue[e]) IN
         tst' = [tst EXCEPT ![t[1]][t[2]] = "acq"]
    /\ queue' = [queue EXCEPT ![e] = Tail(@)]
    /\ UNCHANGED <<coordVars, batchVars, tres, tdrv, texec, attempt, status,
                   shut, maxw, callVars, histVars, pollVars, sinkVars, routeVars>>

\* ------------------------------------------------- _process_single_task
\* driver = driver_queue.get(timeout=30); create_generator(...), which may
\* raise; update_prompt_status(task.prompt, "processing")
Acquire(b, i) ==
    /\ tst[b][i] = "acq"
    /\ dq[b] # <<>>
    /\ \E created \in env.creates :
         IF created
         THEN /\ tdrv' = [tdrv EXCEPT ![b][i] = Head(dq[b])]
              /\ dq' = [dq EXCEPT ![b] = Tail(@)]
              /\ status' = [status EXCEPT ![b][i] = "processing"]
              /\ tst' = [tst EXCEPT ![b][i] = "run"]
              /\ UNCHANGED tres
         ELSE /\ dq' = [dq EXCEPT ![b] = FinallyPut(Tail(@), Head(dq[b]))]
              /\ tres' = ProcessingError(tres, b, i)
              /\ tst' = [tst EXCEPT ![b][i] = "done"]
              /\ UNCHANGED <<tdrv, status>>
    /\ UNCHANGED <<coordVars, nb, ntasks, drivers, bgpc, bgi, bgt, texec,
                   attempt, execVars, callVars, histVars, pollVars, sinkVars, routeVars>>

\* driver_queue.get(timeout=30) raises queue.Empty: `except Exception`
\* returns a failed GenerationResult, and `finally` finds driver None.
AcquireTimeout(b, i) ==
    /\ tst[b][i] = "acq"
    /\ dq[b] = <<>>
    /\ dq' = [dq EXCEPT ![b] = FinallyPut(@, NoDriver)]
    /\ tres' = ProcessingError(tres, b, i)
    /\ tst' = [tst EXCEPT ![b][i] = "done"]
    /\ UNCHANGED <<coordVars, nb, ntasks, drivers, bgpc, bgi, bgt, tdrv, texec,
                   attempt, status, execVars, callVars, histVars,
                   pollVars, sinkVars, routeVars>>

\* The status is set back to pending.
StatusAfterReset(o) == "pending"

\* prompt.status after lines 229-250, from "processing".
StatusAfter(o) ==
    CASE o = "success" -> "completed"
      [] o = "failure" -> "failed"
      [] OTHER -> "processing"

\* if result.success: metadata_path = self.prompt_manager.save_result(result)
\* -- the calls of save_result made for a job whose generator did o.
SaveCalls(o) == IF o \in {"success", "unsaved"} THEN 1 ELSE 0

\* result = generator.generate_image(task.prompt) and what follows it, to
\* the return of the GenerationResult through `finally`.
Finish(b, i) ==
    /\ tst[b][i] = "run"
    /\ \E o \in env.outcomes :
         /\ tres' = [tres EXCEPT ![b][i] = (o = "success")]
         /\ status' = [status EXCEPT ![b][i] = StatusAfter(o)]
         /\ saved' = [saved EXCEPT ![b][i] = @ + SaveCalls(o)]
    /\ dq' = [dq EXCEPT ![b] = FinallyPut(@, tdrv[b][i])]
    /\ tdrv' = [tdrv EXCEPT ![b][i] = NoDriver]
    /\ tst' = [tst EXCEPT ![b][i] = "done"]
    /\ UNCHANGED <<coordVars, nb, ntasks, drivers, bgpc, bgi, bgt, texec,
                   attempt, execVars, callVars, histVars, pollVars, notified,
                   raisedFor, routeVars>>

\* ------------------------------- get_generation_progress (api/routes.py)
\* progress = generator.get_progress(): with self.progress_lock: return
\* self.progress -- the object itself, not a copy of it.
Poll ==
    /\ opc \in {"idle", "done"}
    /\ lock = LockFree
    /\ oref' = progress
    /\ snap' = NoSnapshot
    /\ opc' = "total_prompts"
    /\ UNCHANGED <<coordVars, batchVars, taskVars, execVars, callVars, histVars,
                   sinkVars, routeVars>>

\* The response is built field by field from that object, the lock released:
\* 'total_prompts': progress.total_prompts, 'completed': progress.completed,
\* 'successful': ..., 'failed': ..., 'in_progress': ...
PollRead ==
    /\ opc \notin {"idle", "done"}
    /\ CASE opc = "total_prompts" ->
              /\ snap' = [snap EXCEPT !.total = prog[oref].total_prompts]
              /\ opc' = "completed"
         [] opc = "completed" ->
              /\ snap' = [snap EXCEPT !.completed = prog[oref].completed]
              /\ opc' = "successful"
         [] opc = "successful" ->
              /\ snap' = [snap EXCEPT !.successful = prog[oref].successful]
              /\ opc' = "failed"
         [] opc = "failed" ->
              /\ snap' = [snap EXCEPT !.failed = prog[oref].failed]
              /\ opc' = "in_progress"
         [] opc = "in_progress" ->
              /\ snap' = [snap EXCEPT !.in_progress = prog[oref].in_progress]
              /\ opc' = "done"
    /\ UNCHANGED <<oref, coordVars, batchVars, taskVars, execVars, callVars,
                   histVars, sinkVars, routeVars>>

\* ------------------------------------------------------- specification
Next ==
    \/ \E c \in Callers : StartCheck(c)
    \/ \E c \in Callers : StartInit(c)
    \/ \E c \in Callers : StartExecutor(c)
    \/ \E c \in Callers : StopFlag(c)
    \/ \E c \in Callers : StopTest(c)
    \/ \E c \in Callers : StopShutdown(c)
    \/ \E c \in Callers : StopCleanupFlag(c)
    \/ \E c \in Callers : StopCleanupTest(c)
    \/ \E c \in Callers : StopCleanupShutdown(c)
    \/ \E c \in Callers : StopCleanupClear(c)
    \/ \E b \in Batches : BgLoop(b)
    \/ \E b \in Batches : BgSubmit(b)
    \/ \E b \in Batches : BgInc(b)
    \/ \E b \in Batches, i \in Tasks : BgYield(b, i)
    \/ \E b \in Batches : BgExhausted(b)
    \/ \E b \in Batches : BgTimeout(b)
    \/ \E b \in Batches : BgHandle(b)
    \/ \E b \in Batches : BgHandle2(b)
    \/ \E b \in Batches : BgFinalize(b)
    \/ \E b \in Batches : BgCleanupFlag(b)
    \/ \E b \in Batches : BgCleanupTest(b)
    \/ \E b \in Batches : BgCleanupShutdown(b)
    \/ \E b \in Batches : BgCleanupClear(b)
    \/ \E e \in Batches : WorkerTake(e)
    \/ \E b \in Batches, i \in Tasks : Acquire(b, i)
    \/ \E b \in Batches, i \in Tasks : Finish(b, i)

Spec == Init /\ [][Next]_vars

\* Within one batch the executor has at most as many worker threads as the
\* driver queue has drivers, so driver_queue.get never finds the queue empty
\* and AcquireTimeout is no step of Spec; it is one once a second batch
\* shares the coordinator.

\* The callers of a coordinator that is started again after a stop: full
\* prompt lists, the first drivers, a generator that succeeds, one worker.
Restart ==
    [starts |-> MaxBatches, stops |-> 1, sizes |-> {MaxTasks},
     lists |-> {[k \in 1..n |-> k] : n \in 1..MaxDrivers},
     outcomes |-> {"success"}, creates |-> {TRUE}, configs |-> {1},
     subscribers |-> {"returns"}, callers |-> 1..MaxCallers]

InitRestart == InitWith(Restart)

NextRestart == Next \/ \E b \in Batches, i \in Tasks : AcquireTimeout(b, i)

SpecRestart == InitRestart /\ [][NextRestart]_vars

\* A client polling the progress route while one batch runs.
Polled ==
    [starts |-> 1, stops |-> 1, sizes |-> 1..MaxTasks,
     lists |-> {[k \in 1..n |-> k] : n \in 1..MaxDrivers},
     outcomes |-> {"success", "failure"}, creates |-> {TRUE},
     configs |-> 1..MaxWorkersCfg, subscribers |-> {"returns"},
     callers |-> 1..MaxCallers]

InitPolled == InitWith(Polled)

NextPolled == Next \/ Poll \/ PollRead

SpecPolled == InitPolled /\ [][NextPolled]_vars

\* Callers that start at the same time a coordinator nobody stops: one
\* prompt, one driver, a generator that succeeds.
Racing ==
    [starts |-> MaxBatches, stops |-> 0, sizes |-> {1},
     lists |-> {<<1>>}, outcomes |-> {"success"}, creates |-> {TRUE},
     configs |-> {1}, subscribers |-> {"returns"}, callers |-> 1..MaxRacers]

InitRacing == InitWith(Racing)

NextRacing ==
    \/ \E c \in Callers : StartCheck(c)
    \/ \E c \in Callers : StartInit(c)
    \/ \E c \in Callers : StartExecutor(c)
    \/ \E b \in Batches : BgLoop(b)
    \/ \E b \in Batches : BgSubmit(b)
    \/ \E b \in Batches : BgInc(b)
    \/ \E b \in Batches, i \in Tasks : BgYield(b, i)
    \/ \E b \in Batches : BgExhausted(b)
    \/ \E b \in Batches : BgTimeout(b)
    \/ \E b \in Batches : BgHandle(b)
    \/ \E b \in Batches : BgHandle2(b)
    \/ \E b \in Batches : BgFinalize(b)
    \/ \E b \in Batches : BgCleanupFlag(b)
    \/ \E b \in Batches : BgCleanupTest(b)
    \/ \E b \in Batches : BgCleanupShutdown(b)
    \/ \E b \in Batches : BgCleanupClear(b)
    \/ \E e \in Batches : WorkerTake(e)
    \/ \E b \in Batches, i \in Tasks : Acquire(b, i)
    \/ \E b \in Batches, i \in Tasks : Finish(b, i)

SpecRacing == InitRacing /\ [][NextRacing]_vars

\* A progress callback that calls generator.get_progress() while one batch
\* runs.
Reentrant ==
    [starts |-> 1, stops |-> 1, sizes |-> 1..MaxTasks,
     lists |-> {[k \in 1..n |-> k] : n \in 1..MaxDrivers},
     outcomes |-> {"success", "failure"}, creates |-> {TRUE},
     configs |-> 1..MaxWorkersCfg, subscribers |-> {"returns", "polls"},
     callers |-> 1..MaxCallers]

InitReentrant == InitWith(Reentrant)

SpecReentrant == InitReentrant /\ [][Next]_vars

\* ---------------------------------- the registry of api/routes.py
\* batch_id = f"batch_{datetime.now().strftime('%Y%m%d_%H%M%S')}": the
\* identifier is the wall-clock time, to the second.
BatchIdAt(t) == t

\* One second of wall-clock time passes.
Tick ==
    /\ clock < MaxSeconds
    /\ clock' = clock + 1
    /\ UNCHANGED <<multi_thread_generators, batch_ids, ngen, unregistered,
                   coordVars, batchVars, taskVars, execVars, callVars, pollVars,
                   histVars, sinkVars>>

\* run_multi_thread_generation: generator = MultiThreadGenerator(...);
\* batch_id = generator.start_batch_generation(...);
\* self.multi_thread_generators[batch_id] = generator.  A start that raises
\* (ValueError for max_workers <= 0) answers 500 and stores nothing.
RouteStart ==
    /\ ngen < MaxGenerators
    /\ ngen' = ngen + 1
    /\ \E started \in BOOLEAN :
         IF started
         THEN /\ batch_ids' = [batch_ids EXCEPT ![ngen + 1] = BatchIdAt(clock)]
              /\ multi_thread_generators' =
                     [multi_thread_generators EXCEPT ![BatchIdAt(clock)] = ngen + 1]
         ELSE UNCHANGED <<batch_ids, multi_thread_generators>>
    /\ UNCHANGED <<clock, unregistered, coordVars, batchVars, taskVars, execVars,
                   callVars, pollVars, histVars, sinkVars>>

\* stop_generation(batch_id): 404 when batch_id is not in the registry;
\* else generator.stop_generation() and
\* del self.multi_thread_generators[batch_id].
RouteStop(id) ==
    /\ multi_thread_generators[id] # NoGenerator
    /\ unregistered' = unregistered \cup {multi_thread_generators[id]}
    /\ multi_thread_generators' =
           [multi_thread_generators EXCEPT ![id] = NoGenerator]
    /\ UNCHANGED <<clock, batch_ids, ngen, coordVars, batchVars, taskVars,
                   execVars, callVars, pollVars, histVars, sinkVars>>

NextRoutes ==
    \/ Tick
    \/ RouteStart
    \/ \E id \in BatchIds : RouteStop(id)

SpecRoutes == Init /\ [][NextRoutes]_vars

\* ================================================================ claims
\* task.max_attempts: GenerationTask(max_attempts=self.config.retry_attempts)
MaxAttemptsOf(t) == RetryAttempts

\* Jobs of batch b that a worker has begun to process.
Begun(b, i) == tst[b][i] \in {"acq", "run", "done", "yielded"}

\* Jobs of batch b inside generator.generate_image, holding a driver.
Executing(b) == {i \in Tasks : tst[b][i] = "run"}
\* Tasks of batch b whose worker holds a driver.
Holding(b) == {i \in Tasks : tdrv[b][i] # NoDriver}

\* C1: every progress snapshot an observer reads satisfies
\* completed = successful + failed.  Stated of the response the progress
\* route has finished building.
C1_SnapshotAddsUp ==
    opc = "done" => snap.completed = snap.successful + snap.failed

\* C2: in every reachable state the counters of every BatchProgress object
\* satisfy in_progress >= 0, completed <= total and
\* in_progress + completed <= total.
C2_CountersInRange ==
    \A k \in 0..MaxBatches :
        /\ prog[k].in_progress >= 0
        /\ prog[k].completed <= prog[k].total_prompts
        /\ prog[k].in_progress + prog[k].completed <= prog[k].total_prompts

\* C3: no driver is held by two workers at once, whether or not the batch
\* of either worker has been stopped.
C3_ExclusiveHold ==
    \A t, u \in TaskIds :
        (t # u /\ tdrv[t[1]][t[2]] # NoDriver)
            => tdrv[t[1]][t[2]] # tdrv[u[1]][u[2]]

\* C4: for a batch started with N drivers, drivers free in its queue plus
\* drivers held by its workers are N at every instant, and a worker that is
\* not inside job processing holds none (it returned what it acquired on
\* success, on failure and on an exception alike).
C4_DriversConserved ==
    \A b \in Batches :
        /\ Len(dq[b]) + Cardinality(Holding(b)) = Len(drivers[b])
        /\ \A i \in Tasks : tst[b][i] # "run" => tdrv[b][i] = NoDriver

\* C4's case: a job left processing after its generator raised, and every
\* driver of its batch is back in the queue.
C4_Witness ==
    \E b \in Batches, i \in Tasks :
        /\ tst[b][i] = "done"
        /\ status[b][i] = "processing"
        /\ Len(drivers[b]) > 0
        /\ Len(dq[b]) = Len(drivers[b])

\* C5: a job is finalized as failed only when the failed attempt was its
\* last one, attempt = max_attempts (a failure below that is retried with
\* the attempt counter incremented).
C5_FailedOnlyWhenExhausted ==
    \A k \in 0..MaxBatches : \A t \in prog[k].results :
        (prog[k].failed > 0 /\ ~tres[t[1]][t[2]])
            => attempt[t[1]][t[2]] = MaxAttemptsOf(t)

\* C6: once stop has set the cancellation flag for a batch, no job of it
\* that had not begun begins.
C6_NoJobBeginsAfterStop ==
    [][\A b \in stopped : \A i \in Tasks : Begun(b, i)' => Begun(b, i)]_vars

\* C7: after stop on a running batch whose executor calls all return,
\* in_progress reaches 0 and completed never exceeds total.  Stated of the
\* state the stopped batch ends in: its thread has left the wait for its
\* jobs without an exception and has returned, and none of its jobs is
\* unfinished; nothing changes the counters of the batch after that.
C7_StoppedBatchDrains ==
    \A b \in stopped :
        /\ prog[b].completed <= prog[b].total_prompts
        /\ (/\ bgpc[b] = "done"
            /\ b \in finalized
            /\ \A i \in Tasks : ~Pending(b, i))
               => prog[b].in_progress = 0

\* C8: a batch that is never stopped and whose executor calls all return
\* ends with the coordinator not running and the snapshot total = number
\* of jobs, completed = total, successful and failed the numbers of jobs
\* that succeeded and failed, in_progress = 0.
C8_FinalSnapshot ==
    \A b \in Batches :
        (nstops = 0 /\ bgpc[b] = "done" /\ \A i \in Tasks : ~Pending(b, i))
            => /\ ~is_running
               /\ prog[b].total_prompts = ntasks[b]
               /\ prog[b].completed = ntasks[b]
               /\ prog[b].successful =
                      Cardinality({i \in 1..ntasks[b] : tres[b][i]})
               /\ prog[b].failed =
                      Cardinality({i \in 1..ntasks[b] : ~tres[b][i]})
               /\ prog[b].in_progress = 0

\* C9: the jobs of one batch being executed at once never exceed
\* min(max_workers, number of drivers supplied to the batch).
C9_ConcurrencyBound ==
    \A b \in Batches :
        bgpc[b] # "none"
            => Cardinality(Executing(b)) <= Min(max_workers, Len(drivers[b]))

\* C10: a start call made while the coordinator is running returns the
\* misuse error at once and changes nothing of the coordinator: not the
\* progress, the submitted jobs, the running flag or the cancellation flag.
C10_MisuseRejected ==
    [][\A c \in Callers :
          (/\ cpc[c] = "idle"
           /\ is_running
           /\ \/ result'[c] # result[c]
              \/ cpc'[c] \in {"start_init", "start_exec"}
              \/ nb' # nb)
              => /\ result'[c] = "RuntimeError"
                 /\ cpc'[c] = "idle"
                 /\ UNCHANGED <<coordVars, batchVars, taskVars, execVars>>]_vars

\* C10's case: a start call was rejected while a batch with submitted jobs
\* is running.
C10_Witness ==
    \E c \in Callers :
        /\ result[c] = "RuntimeError"
        /\ is_running
        /\ prog[progress].in_progress > 0
        /\ \E b \in Batches : Alive(b)

\* C11: the expiry of the timeout of the wait for the jobs is not an
\* unhandled fault: a batch that was never stopped, once its thread has
\* returned, was finalized and has recorded an Outcome for each of its jobs.
C11_ExpiryHandled ==
    \A b \in Batches :
        (nstops = 0 /\ bgpc[b] = "done")
            => /\ b \in finalized
               /\ \A i \in 1..ntasks[b] : <<b, i>> \in prog[b].results

StopStep(c) ==
    /\ cpc'[c] # cpc[c]
    /\ \/ cpc'[c] = "stop_test"
       \/ cpc[c] \in {"stop_test", "stop_shutdown", "stop_cleanup",
                      "stop_cleanup_test", "stop_cleanup_shutdown",
                      "stop_cleanup_clear"}

C14_SinkFailureHarmless ==
    \A b \in Batches, i \in Tasks :
        (tst[b][i] \in {"done", "yielded"} /\ saved[b][i] > 0) => tres[b][i]

\* C15: a subscriber that raises changes no counter, fails or aborts no job
\* and does not keep later jobs from being finalized and notified: a batch
\* that was never stopped and was finalized after a callback raised has
\* notified every job and counts each job once, by its own Outcome.
C15_SubscriberFaultsContained ==
    \A b \in Batches :
        (nstops = 0 /\ b \in finalized /\ \E t \in raisedFor : t[1] = b)
            => /\ \A i \in 1..ntasks[b] :
                      <<b, i>> \in notified /\ tst[b][i] = "yielded"
               /\ prog[b].completed = ntasks[b]
               /\ prog[b].successful =
                      Cardinality({i \in 1..ntasks[b] : tres[b][i]})
               /\ prog[b].failed =
                      Cardinality({i \in 1..ntasks[b] : ~tres[b][i]})
               /\ prog[b].in_progress = 0

\* C15's case: the progress callback raised for one successful job, another
\* successful job of the batch was handled and notified, and the batch was
\* finalized.
C15_Witness ==
    \E b \in Batches, i \in Tasks, j \in Tasks :
        /\ nstops = 0
        /\ b \in finalized
        /\ <<b, i>> \in raisedFor
        /\ j # i
        /\ <<b, j>> \in notified \ raisedFor
        /\ tres[b][i]
        /\ tres[b][j]

\* C16: for every terminal Outcome of a batch, successful or failed,
\* save_result is called exactly once: every job whose Outcome the batch has
\* recorded has had one call of save_result.
C16_EveryOutcomeSaved ==
    \A k \in 0..MaxBatches : \A t \in prog[k].results :
        saved[t[1]][t[2]] = 1

\* The status changes a job may make.
StatusEdges ==
    {<<"pending", "processing">>, <<"processing", "completed">>,
     <<"processing", "failed">>}

\* C17: the status of every job changes only along pending -> processing ->
\* completed or failed, with failed -> pending only while attempt <
\* max_attempts; no job leaves completed, nor failed at attempt =
\* max_attempts.
C17_StatusTransitions ==
    [][\A b \in Batches, i \in Tasks :
          status'[b][i] # status[b][i]
              => \/ <<status[b][i], status'[b][i]>> \in StatusEdges
                 \/ /\ status[b][i] = "failed"
                    /\ status'[b][i] = "pending"
                    /\ attempt[b][i] < MaxAttemptsOf(<<b, i>>)]_vars

\* C17's case: one job of a batch went to completed and another to failed.
C17_Witness ==
    \E b \in Batches, i \in Tasks, j \in Tasks :
        /\ status[b][i] = "completed"
        /\ status[b][j] = "failed"
        /\ tst[b][i] = "yielded"
        /\ tst[b][j] = "yielded"

\* The Outcomes recorded for task t: results.append(result), over every
\* progress object.
Recorded(t) == Cardinality({k \in 0..MaxBatches : t \in prog[k].results})

\* C18: the number of Outcomes recorded for a job is the number of attempts
\* made on it: the attempts it took for a job that succeeded (one, when it
\* succeeded at once) and max_attempts for a job that failed.
C18_OutcomePerAttempt ==
    \A t \in TaskIds :
        Recorded(t) > 0
            => Recorded(t) = IF tres[t[1]][t[2]] THEN attempt[t[1]][t[2]]
                                                 ELSE MaxAttemptsOf(t)

\* C19: the coordinator reports its batch as no longer running only when
\* completed = total, or when cancellation was requested and no worker is
\* still executing a job of the batch.
C19_NotRunningOnlyWhenTerminal ==
    \A b \in Batches :
        (progress = b /\ bgpc[b] # "none" /\ ~is_running)
            => \/ prog[b].completed = prog[b].total_prompts
               \/ /\ stop_requested
                  /\ \A i \in Tasks : tst[b][i] \notin {"acq", "run"}

\* C20: from start to the end of a batch the counters completed, successful
\* and failed of its progress never decrease: no step lowers a counter of a
\* progress object, nor of what get_progress returns while it returns the
\* same batch's object.
C20_CountersMonotone ==
    [][/\ \A k \in 0..MaxBatches :
             /\ prog'[k].completed >= prog[k].completed
             /\ prog'[k].successful >= prog[k].successful
             /\ prog'[k].failed >= prog[k].failed
       /\ progress' = progress
             => /\ prog'[progress'].completed >= prog[progress].completed
                /\ prog'[progress'].successful >= prog[progress].successful
                /\ prog'[progress'].failed >= prog[progress].failed]_vars

\* C20's case: after a stop and a second start, the progress object of the
\* second batch has counted every job of a batch.
C20_Witness ==
    /\ nb = MaxBatches
    /\ progress = MaxBatches
    /\ prog[progress].completed = MaxTasks
    /\ prog[progress].successful = MaxTasks

\* C21: jobs are submitted in the order of the list: a job is submitted
\* only when every job before it in the list has been submitted.
C21_SubmittedInListOrder ==
    [][\A b \in Batches, i \in Tasks :
          (tst[b][i] = "new" /\ tst'[b][i] # "new")
              => \A j \in 1..(i - 1) : tst[b][j] # "new"]_vars

\* C21's case: the last job of a full list has been submitted while the
\* first one is still being processed.
C21_Witness ==
    \E b \in Batches :
        /\ ntasks[b] = MaxTasks
        /\ tst[b][MaxTasks] = "queued"
        /\ tst[b][1] = "run"

\* C22: from the start of a batch returning its batch id until stop is
\* called for it, a lookup of that id finds the batch's own generator (and
\* so its progress); after the stop, a lookup of that id no longer finds it.
C22_QueryableUntilStopped ==
    \A g \in 1..ngen :
        batch_ids[g] # NoBatchId
            => IF g \in unregistered
               THEN multi_thread_generators[batch_ids[g]] # g
               ELSE multi_thread_generators[batch_ids[g]] = g

\* C23: a batch in which jobs failed ends like one in which all succeeded:
\* a never-stopped batch whose jobs have all been handled, some of them
\* failed, and whose thread has returned was finalized (the completion
\* callback was called), the coordinator is not running, and the failures
\* are in the failed counter only.
C23_FailuresStillComplete ==
    \A b \in Batches :
        (/\ nstops = 0
         /\ bgpc[b] = "done"
         /\ \A i \in 1..ntasks[b] : tst[b][i] = "yielded"
         /\ \E i \in 1..ntasks[b] : ~tres[b][i])
            => /\ b \in finalized
               /\ ~is_running
               /\ prog[b].completed = ntasks[b]
               /\ prog[b].failed =
                      Cardinality({i \in 1..ntasks[b] : ~tres[b][i]})
               /\ prog[b].successful =
                      Cardinality({i \in 1..ntasks[b] : tres[b][i]})

\* C23's case: a batch of one failed and one successful job has ended.
C23_Witness ==
    \E b \in Batches, i \in Tasks, j \in Tasks :
        /\ nstops = 0
        /\ bgpc[b] = "done"
        /\ b \in finalized
        /\ tst[b][i] = "yielded"
        /\ tst[b][j] = "yielded"
        /\ ~tres[b][i]
        /\ tres[b][j]

\* The thread of batch b is between its start and its _cleanup.
Running(b) ==
    bgpc[b] \in {"loop", "submit", "inc", "wait", "handle", "handle2", "finalize"}

\* C24: of start calls racing on an idle coordinator one wins: at no time
\* do two batches run on the coordinator.
C24_OneBatchAtATime ==
    \A b \in Batches, d \in Batches :
        (Running(b) /\ Running(d)) => b = d

\* C25: after a stop and a new start on the same coordinator, no Outcome of
\* a job of the stopped batch is added to the progress of the new batch,
\* and the thread of the stopped batch submits no job to the new batch's
\* worker pool: every progress object records jobs of its own batch only,
\* and every job was submitted to the executor of its own batch.
C25_StoppedBatchKeptApart ==
    /\ \A k \in Batches : \A t \in prog[k].results : t[1] = k
    /\ \A b \in Batches, i \in Tasks : texec[b][i] \in {NoExecutor, b}

\* C26: a batch started after an earlier batch was stopped is left alone by
\* that batch's thread: while the thread of a batch that no stop call has
\* hit is running, its worker pool is not shut down and the coordinator
\* reports it as running.
C26_NewBatchUndisturbed ==
    \A b \in Batches :
        (Running(b) /\ b \notin stopped) => (~shut[b] /\ is_running)

\* C27: a start call that fails after the already-running check (the
\* creation of the worker pool raises for an empty driver list or
\* max_workers <= 0) leaves the coordinator not running.
C27_FailedStartLeavesIdle ==
    \A c \in Callers :
        (cpc[c] = "idle" /\ result[c] = "ValueError") => ~is_running

\* C28: the Outcome of a job is recorded and counted before the driver the
\* job used is released: every job whose worker has returned its driver is
\* in the results of its batch's progress.
C28_CountedBeforeRelease ==
    \A b \in Batches, i \in Tasks :
        tst[b][i] \in {"done", "yielded"} => <<b, i>> \in prog[b].results

\* C29: when the Outcome of a job is final, the status of its prompt matches
\* it: completed for a successful Outcome, failed for a failed one, also
\* when the Outcome comes from an exception.
C29_StatusMatchesOutcome ==
    \A b \in Batches, i \in Tasks :
        tst[b][i] \in {"done", "yielded"}
            => status[b][i] = IF tres[b][i] THEN "completed" ELSE "failed"

\* C30: in every snapshot in_progress is at most the number of workers,
\* min(max_workers, number of drivers).
C30_InProgressBounded ==
    \A b \in Batches :
        bgpc[b] # "none"
            => prog[b].in_progress <= Min(max_workers, Len(drivers[b]))

\* C31: the progress subscriber is called after every change of the
\* counters of the progress, when a job is taken into in_progress as when
\* it succeeds or fails: every step that changes a counter of the progress
\* object in use either calls the subscriber or is the first half of
\* _handle_task_completion, which keeps the lock until it has called it.
C31_NotifiedOnEveryChange ==
    [][(progress' = progress /\ prog'[progress] # prog[progress])
          => \/ notified' # notified
             \/ \E b \in Batches : lock' = b /\ bgpc'[b] = "handle2"]_vars

\* C32: whenever the completion callback is called for a batch, the
\* progress it is given has completed = total, and a batch cut short by a
\* stop call gets no completion callback.
C32_CompletionOnlyWhenComplete ==
    [][\A b \in finalized' \ finalized :
          /\ prog'[progress'].completed = prog'[progress'].total_prompts
          /\ b \notin stopped]_vars

\* Threads about to assign self.executor (`self.executor = None` of
\* _cleanup, `self.executor = ThreadPoolExecutor(...)` of a start call):
\* callers and background threads; none of them holds the lock there.
ExecutorWriters ==
    {<<"caller", c>> : c \in {d \in Callers :
                                cpc[d] \in {"start_exec", "stop_cleanup_clear"}}}
        \cup {<<"thread", b>> : b \in {d \in Batches : bgpc[d] = "cleanup_clear"}}

\* C33: the driver queue and the progress counters are the only state
\* written by more than one thread, each under its exclusion primitive; the
\* running flag, the cancellation flag and the executor handle are not
\* written concurrently without protection: at no time are two threads
\* about to assign self.executor, the lock free.
C33_OnlyGuardedSharedWrites ==
    lock = LockFree => Cardinality(ExecutorWriters) <= 1

\* C34: within one batch, whenever a worker is about to take a driver from
\* the queue, the queue holds at least one: the executor has at most as
\* many workers as the batch has drivers and a worker holds at most one, so
\* driver_queue.get neither waits nor times out.
C34_DriverAlwaysFree ==
    \A b \in Batches, i \in Tasks : tst[b][i] = "acq" => dq[b] # <<>>

\* C34's case: a worker is about to take a driver while another worker of
\* the batch holds one, and one driver is left in the queue.
C34_Witness ==
    \E b \in Batches, i \in Tasks, j \in Tasks :
        /\ tst[b][i] = "acq"
        /\ tst[b][j] = "run"
        /\ tdrv[b][j] # NoDriver
        /\ Len(dq[b]) = 1

\* C35: a stop call neither marks nor counts abandoned jobs as failed: of a
\* batch that a stop call hit, every job that no worker has begun has status
\* pending and is in no results list, and the counters count recorded
\* Outcomes only: completed is the number of results, failed at most the
\* number of failed results.
C35_AbandonedStayPending ==
    \A b \in stopped :
        /\ \A i \in 1..ntasks[b] :
              ~Begun(b, i)
                  => /\ status[b][i] = "pending"
                     /\ \A k \in 0..MaxBatches : <<b, i>> \notin prog[k].results
        /\ prog[b].completed = Cardinality(prog[b].results)
        /\ prog[b].failed
               <= Cardinality({t \in prog[b].results : ~tres[t[1]][t[2]]})

\* C35's case: the thread of a stopped batch has returned; one job of the
\* batch ran and failed, another was never submitted and is still pending,
\* and the failed counter is 0.
C35_Witness ==
    \E b \in stopped, i \in Tasks, j \in Tasks :
        /\ bgpc[b] = "done"
        /\ j <= ntasks[b]
        /\ tst[b][j] = "new"
        /\ status[b][j] = "pending"
        /\ tst[b][i] = "yielded"
        /\ status[b][i] = "failed"
        /\ prog[b].failed = 0

\* Generators whose batch was started by the routes and not stopped.
ActiveGenerators ==
    {g \in 1..ngen : batch_ids[g] # NoBatchId /\ g \notin unregistered}

\* C36: two batches active at the same time have different batch ids, so
\* registering a new batch never replaces the registry entry of another
\* active batch: every active generator is the one registered under its id.
C36_ActiveIdsDistinct ==
    /\ \A g \in ActiveGenerators, h \in ActiveGenerators :
           g # h => batch_ids[g] # batch_ids[h]
    /\ \A g \in ActiveGenerators : multi_thread_generators[batch_ids[g]] = g

\* C37: a progress callback may call get_progress() without blocking for
\* ever: the thread that delivers the notification never waits for a lock
\* it holds itself.
C37_NoSelfWait ==
    \A b \in Batches : ~(bgpc[b] = "get_progress" /\ lock = b)

====
